---- MODULE Spec2Model ----
(***************************************************************************)
(* Model of the Game coordinator of apps/server/src/game/logic.ts: the     *)
(* session registry, the per-connection session/user association and the   *)
(* seven command handlers.  Session (./session), its event bus and the      *)
(* Controller are not part of the source tree; their operations are         *)
(* modelled from the written specification (sections 3, 4.1, 4.2).          *)
(***************************************************************************)
EXTENDS Integers, Sequences, FiniteSets, TLC

\* ------------------------------------------------------------------ bounds
\* connections (WebSocket objects) and the usernames clients may send
Conns == {1, 2, 3}
Names == {"a", "b", "c"}
NameRank(n) == CASE n = "a" -> 1 [] n = "b" -> 2 [] OTHER -> 3
\* sessions that may ever be created, users that may ever be created
MaxSessions == 2
MaxUsers == 3
\* commands the model handles in one run
MaxCommands == 7
\* white cards dealt to each user at round start
HandSize == 2
\* null reference (socket.session = null, socket.user = null)
Null == 0

Statuses == {"waiting", "starting", "voting", "choosing", "choosingbest", "end"}
Events == {"starting", "voting", "choosing", "choosingbest"}
RedCards == {101}
Deck == 1..(Cardinality(Names) * HandSize)

VARIABLES
  sessions,   \* Game.sessions: the set of registered session ids
  sess,       \* every Session object ever constructed, by id (a sequence)
  conn,       \* conn[c] = [session, user]: the fields socket.session / socket.user
  closed,     \* closed[c]: the transport has closed connection c
  ended,      \* ids of the sessions onSessionEnd has run for
  last,       \* the command handled by the last step and what it did
  steps,      \* commands handled so far
  opened      \* connections that have had an event handled (numbered in that order)

vars == <<sessions, sess, conn, closed, ended, last, steps, opened>>

\* ------------------------------------------------------------ small helpers
Range(f) == {f[i] : i \in DOMAIN f}

RECURSIVE SumLen(_, _)
SumLen(ss, i) == IF i = 0 THEN 0 ELSE Len(ss[i].users) + SumLen(ss, i - 1)

\* users ever created; user ids are handed out in creation order
NumUsers == SumLen(sess, Len(sess))

\* index of the first user named name (Array.find / findIndex), 0 if none
RECURSIVE FindFrom(_, _, _)
FindFrom(users, name, i) ==
  IF i > Len(users) THEN 0
  ELSE IF users[i].username = name THEN i
  ELSE FindFrom(users, name, i + 1)

FindByName(users, name) == FindFrom(users, name, 1)

\* index of the user object with this id in users (0 if none)
IndexOfId(users, uid) ==
  IF \E i \in 1..Len(users) : users[i].id = uid
  THEN CHOOSE i \in 1..Len(users) : users[i].id = uid
  ELSE 0

NoCmd ==
  [cmd |-> "init", socket |-> Null, sid |-> Null, name |-> "", text |-> Null,
   userId |-> Null, result |-> "ok", invoked |-> FALSE, emitted |-> <<>>,
   sent |-> <<>>, nosocket |-> Null, callback |-> FALSE]

\* ------------------------------------------------- Session (from the spec)
NoListeners == [e \in Events |-> 0]

NewSession(id) ==
  [id |-> id, status |-> "waiting", users |-> <<>>, redCard |-> Null,
   votes |-> <<>>, listeners |-> NoListeners, starts |-> 0]

NewUser(uid, socket, username, isHost) ==
  [id |-> uid, username |-> username, host |-> isHost, master |-> FALSE,
   disconnected |-> FALSE, voted |-> FALSE, socket |-> socket,
   whiteCards |-> <<>>]

\* Session.addUser(socket, username, avatarId, host): append a new User
AddUser(S, uid, socket, username, isHost) ==
  [S EXCEPT !.users = Append(@, NewUser(uid, socket, username, isHost))]

\* Session.reconnectUser(socket, user, avatarId): rebind, clear disconnected
ReconnectUser(S, i, socket) ==
  [S EXCEPT !.users[i].socket = socket, !.users[i].disconnected = FALSE]

\* Session.disconnectUser(user, cb), the part before the callback
MarkDisconnected(S, i) ==
  [S EXCEPT !.users[i].socket = Null, !.users[i].disconnected = TRUE]

\* the condition under which Session.disconnectUser invokes its callback
SessionEmpty(S) == \A i \in 1..Len(S.users) : S.users[i].disconnected

\* Session.getUserWhitecards(user)
GetUserWhitecards(S, i) == S.users[i].whiteCards

\* Session.getUserSocket(user): the bound connection, Null when there is none
GetUserSocket(S, i) == S.users[i].socket

\* the users of S dealt fresh hands: the user at position i gets the i-th
\* block of HandSize cards of the deck (hands are disjoint and non-empty),
\* with voted reset and master set on the user at position m only
Hand(i) == [k \in 1..HandSize |-> (i - 1) * HandSize + k]

DealRound(S, m, r) ==
  [S EXCEPT !.users = [i \in 1..Len(S.users) |->
                         [S.users[i] EXCEPT !.master = (i = m), !.voted = FALSE,
                                            !.whiteCards = Hand(i)]],
            !.votes = <<>>,
            !.redCard = r]

\* RecordVote without marking the user as voted
RecordVote_NoMark(S, i, text) ==
  [S EXCEPT !.votes = Append(@, [userId |-> S.users[i].id, text |-> text]),
            !.users[i].whiteCards = SelectSeq(@, LAMBDA x : x # text)]

\* Session.vote(user, text): record the vote, mark voted, the card leaves the hand
RecordVote(S, i, text) ==
  [S EXCEPT !.votes = Append(@, [userId |-> S.users[i].id, text |-> text]),
            !.users[i].voted = TRUE,
            !.users[i].whiteCards = SelectSeq(@, LAMBDA x : x # text)]

\* voting closes once all non-master users have voted
AllVoted(S) == \A i \in 1..Len(S.users) : S.users[i].master \/ S.users[i].voted

\* Session's own guards (section 4.2)
SessionVoteAllowed(S, i, text) ==
  /\ S.status = "voting"
  /\ ~S.users[i].master
  /\ text \in Range(S.users[i].whiteCards)
  /\ ~S.users[i].voted

SessionChooseAllowed(S) == S.status = "choosing"

SessionChooseBestAllowed(S) == S.status = "choosingbest"

\* the master of the next round: the user after the current master
NextMaster(S) ==
  LET cur == CHOOSE i \in 1..Len(S.users) : S.users[i].master
  IN (cur % Len(S.users)) + 1

\* ---------------------------------------------------------------- Game
\* payload type each phase listener sends (logic.ts 189, 207, 227, 245)
PhaseType(e) ==
  CASE e = "starting" -> "gamestart"
    [] e = "voting" -> "votingstarted"
    [] e = "choosing" -> "choosingstarted"
    [] e = "choosingbest" -> "choosingbeststarted"

\* whether the phase payload carries the receiving user's hand
CarriesWhiteCards(e) == e \in {"voting", "choosing"}

\* SkipUser with the disconnected check left out
SkipUser_Never(u) == FALSE

\* the guard at the top of every phase listener's forEach body
SkipUser(u) == u.disconnected

\* one phase listener run: forEach over session.users, in order
RECURSIVE PhaseSendsFrom(_, _, _)
PhaseSendsFrom(S, e, i) ==
  IF i > Len(S.users) THEN <<>>
  ELSE IF SkipUser(S.users[i]) THEN PhaseSendsFrom(S, e, i + 1)
  ELSE <<[to |-> GetUserSocket(S, i), user |-> S.users[i].id,
          type |-> PhaseType(e), status |-> S.status,
          whiteCards |-> IF CarriesWhiteCards(e)
                         THEN GetUserWhitecards(S, i) ELSE <<>>]>>
       \o PhaseSendsFrom(S, e, i + 1)

\* eventBus.emit(e): every handler registered for e runs, in order
RECURSIVE Times(_, _)
Times(n, sends) == IF n = 0 THEN <<>> ELSE sends \o Times(n - 1, sends)

Emit(S, e) == Times(S.listeners[e], PhaseSendsFrom(S, e, 1))

\* the voting listener throws when it reaches a connected user and the
\* session has no red card (logic.ts 201-203)
NoRedCard(S) ==
  /\ S.listeners["voting"] > 0
  /\ S.redCard = Null
  /\ \E i \in 1..Len(S.users) : ~SkipUser(S.users[i])

\* InstallListeners without the clearListeners call
InstallListeners_NoClear(S) ==
  [S EXCEPT !.listeners = [e \in Events |-> S.listeners[e] + 1]]

\* startGame's listener set-up: clearListeners, then one handler per phase
InstallListeners(S) == [S EXCEPT !.listeners = [e \in Events |-> 1]]

\* first position whose user has no bound connection, 0 if every user has one
RECURSIVE FirstUnboundFrom(_, _)
FirstUnboundFrom(S, i) ==
  IF i > Len(S.users) THEN 0
  ELSE IF GetUserSocket(S, i) = Null THEN i
  ELSE FirstUnboundFrom(S, i + 1)

\* joinSession's forEach (logic.ts 101-128): a payload to every user's
\* socket, in order, no user skipped; the loop is cut where the send fails
RECURSIVE JoinSendsFrom(_, _, _)
JoinSendsFrom(S, newUid, i) ==
  IF i > Len(S.users) \/ GetUserSocket(S, i) = Null THEN <<>>
  ELSE <<[to |-> GetUserSocket(S, i), user |-> S.users[i].id,
          type |-> IF S.users[i].id = newUid THEN "joined" ELSE "userjoined",
          status |-> IF S.users[i].id = newUid THEN S.status ELSE "",
          whiteCards |-> IF S.users[i].id = newUid
                         THEN GetUserWhitecards(S, i) ELSE <<>>]>>
       \o JoinSendsFrom(S, newUid, i + 1)

\* Game.onSessionEnd: clear the session's bus (the registry entry is removed
\* by the caller through RegistryAfterEnd)
OnSessionEnd(S) == [S EXCEPT !.listeners = NoListeners]

Init ==
  /\ sessions = {}
  /\ sess = <<>>
  /\ conn = [c \in Conns |-> [session |-> Null, user |-> Null]]
  /\ closed = [c \in Conns |-> FALSE]
  /\ ended = {}
  /\ last = NoCmd
  /\ steps = 0
  /\ opened = 0

\* one more event of connection c is handled.  Connections are numbered in
\* the order of their first event, so c is an earlier connection or the next
Tick(c) ==
  /\ steps < MaxCommands
  /\ steps' = steps + 1
  /\ c <= opened + 1
  /\ opened' = IF c > opened THEN c ELSE opened

\* Usernames are only compared for equality within one session: the first
\* name no user of S has stands for every such name
FreshName(S) ==
  CHOOSE n \in Names : /\ FindByName(S.users, n) = 0
                        /\ \A k \in Names : FindByName(S.users, k) = 0 => NameRank(n) <= NameRank(k)

NamesFor(S) ==
  {S.users[i].username : i \in 1..Len(S.users)}
    \cup (IF \E n \in Names : FindByName(S.users, n) = 0 THEN {FreshName(S)} ELSE {})

\* Game.createSession
CreateSession(c, name) ==
  /\ Tick(c)
  /\ ~closed[c]
  /\ Len(sess) < MaxSessions
  /\ NumUsers < MaxUsers
  /\ LET id == Len(sess) + 1
         uid == NumUsers + 1
         S == AddUser(NewSession(id), uid, c, name, TRUE)
     IN /\ sess' = Append(sess, S)
        /\ sessions' = sessions \cup {id}
        /\ conn' = [conn EXCEPT ![c] = [session |-> id, user |-> uid]]
        /\ last' = [NoCmd EXCEPT !.cmd = "createsession", !.socket = c,
                      !.sid = id, !.name = name,
                      !.sent = <<[to |-> c, user |-> uid, type |-> "created",
                                  status |-> S.status, whiteCards |-> <<>>]>>]
  /\ UNCHANGED <<closed, ended>>

\* RegistryAfterEnd without the sessions.delete call
RegistryAfterEnd_NoDelete(sid) == sessions

\* the registry after Game.onSessionEnd(session): sessions.delete(session.id)
RegistryAfterEnd(sid) == sessions \ {sid}

\* ClearedAssociation without socket.user = null
ClearedAssociation_KeepsUser(a) == [a EXCEPT !.session = Null]

\* the socket's association after disconnectUser (logic.ts 38-39)
ClearedAssociation(a) == [session |-> Null, user |-> Null]

\* Game.disconnectUser(socket): what it does to the registry, the sessions
\* and the socket's association
DisconnectUser(c) ==
  LET sid == conn[c].session
      uid == conn[c].user
  IN IF sid = Null \/ uid = Null
     THEN UNCHANGED <<sessions, sess, conn, ended>>
     ELSE LET i == IndexOfId(sess[sid].users, uid)
              S1 == MarkDisconnected(sess[sid], i)
              empty == SessionEmpty(S1)
          IN /\ sess' = [sess EXCEPT ![sid] = IF empty THEN OnSessionEnd(S1) ELSE S1]
             /\ sessions' = IF empty THEN RegistryAfterEnd(sid) ELSE sessions
             /\ ended' = IF empty THEN ended \cup {sid} ELSE ended
             /\ conn' = [conn EXCEPT ![c] = ClearedAssociation(@)]

\* whether the disconnectUser of this step runs the end-of-session callback
EndsSession(c) ==
  /\ conn[c].session # Null
  /\ conn[c].user # Null
  /\ LET S == sess[conn[c].session]
     IN SessionEmpty(MarkDisconnected(S, IndexOfId(S.users, conn[c].user)))

\* the controller's lostconnection event on an open connection
LostConnection(c) ==
  /\ Tick(c)
  /\ ~closed[c]
  /\ DisconnectUser(c)
  /\ last' = [NoCmd EXCEPT !.cmd = "lostconnection", !.socket = c,
                           !.sid = conn[c].session, !.userId = conn[c].user,
                           !.callback = EndsSession(c)]
  /\ UNCHANGED closed

\* the transport closes c: the lostconnection handler and every registered
\* "close" listener run disconnectUser(socket); all but the first find the
\* association cleared and return
Close(c) ==
  /\ Tick(c)
  /\ ~closed[c]
  /\ DisconnectUser(c)
  /\ closed' = [closed EXCEPT ![c] = TRUE]
  /\ last' = [NoCmd EXCEPT !.cmd = "close", !.socket = c,
                           !.sid = conn[c].session, !.userId = conn[c].user,
                           !.callback = EndsSession(c)]

\* JoinError looking the session up among all Session objects, not in the
\* registry
JoinError_AnySession(sid, name) ==
  IF sid \notin DOMAIN sess THEN "session not found"
  ELSE LET S == sess[sid]
           waitingState == S.status = "waiting" \/ S.status = "end"
           previousUser == FindByName(S.users, name)
       IN IF previousUser # 0 /\ ~waitingState THEN "ok"
          ELSE IF ~waitingState THEN "game is started already"
          ELSE IF FindByName(S.users, name) # 0 THEN "nickname is taken"
          ELSE "ok"

\* Game.joinSession's checks, in the order the code makes them
JoinError(sid, name) ==
  IF sid \notin sessions THEN "session not found"
  ELSE LET S == sess[sid]
           waitingState == S.status = "waiting" \/ S.status = "end"
           previousUser == FindByName(S.users, name)
       IN IF previousUser # 0 /\ ~waitingState THEN "ok"
          ELSE IF ~waitingState THEN "game is started already"
          ELSE IF FindByName(S.users, name) # 0 THEN "nickname is taken"
          ELSE "ok"

\* IsReconnect with the negation of waitingState dropped
IsReconnect_Flipped(S, name) ==
  /\ FindByName(S.users, name) # 0
  /\ (S.status = "waiting" \/ S.status = "end")

\* whether joinSession takes the reconnect branch (logic.ts 83)
IsReconnect(S, name) ==
  /\ FindByName(S.users, name) # 0
  /\ ~(S.status = "waiting" \/ S.status = "end")

\* JoinHostFlag with the host flag of createSession
JoinHostFlag_True == TRUE

\* host flag joinSession gives a newly added user (logic.ts 94)
JoinHostFlag == FALSE

\* usernames joinsession is tried with: every name in use in the session and
\* one name that is not
JoinNames(sid) ==
  IF sid \in DOMAIN sess THEN NamesFor(sess[sid]) ELSE {FreshName(NewSession(Null))}

JoinSession(c, sid, name) ==
  /\ name \in JoinNames(sid)
  /\ Tick(c)
  /\ ~closed[c]
  /\ LET err == JoinError(sid, name)
         cmd == [NoCmd EXCEPT !.cmd = "joinsession", !.socket = c,
                              !.sid = sid, !.name = name]
     IN IF err # "ok"
        THEN /\ last' = [cmd EXCEPT !.result = err]
             /\ UNCHANGED <<sessions, sess, conn, closed, ended>>
        ELSE LET S == sess[sid]
                 re == IsReconnect(S, name)
                 i == IF re THEN FindByName(S.users, name) ELSE Len(S.users) + 1
                 uid == IF re THEN S.users[i].id ELSE NumUsers + 1
                 S1 == IF re THEN ReconnectUser(S, i, c)
                       ELSE AddUser(S, uid, c, name, JoinHostFlag)
                 bad == FirstUnboundFrom(S1, 1)
             IN /\ re \/ NumUsers < MaxUsers
                /\ sess' = [sess EXCEPT ![sid] = S1]
                /\ conn' = [conn EXCEPT ![c] = [session |-> sid, user |-> uid]]
                /\ last' = [cmd EXCEPT
                              !.invoked = TRUE,
                              !.sent = JoinSendsFrom(S1, uid, 1),
                              !.nosocket = IF bad = 0 THEN Null ELSE S1.users[bad].id,
                              !.result = IF bad = 0 THEN "ok" ELSE "no socket"]
                /\ UNCHANGED <<sessions, closed, ended>>

\* VoteError without the user.voted check
VoteError_NoVotedCheck(c, text) ==
  IF conn[c].session = Null THEN "no session"
  ELSE IF conn[c].user = Null THEN "no user"
  ELSE LET S == sess[conn[c].session]
           i == IndexOfId(S.users, conn[c].user)
       IN IF S.users[i].master THEN "master can't vote"
          ELSE IF S.status # "voting" THEN "you can't vote now"
          ELSE IF text \notin Range(GetUserWhitecards(S, i)) THEN "you have no such card"
          ELSE "ok"

\* Game.vote's checks, in the order the code makes them
VoteError(c, text) ==
  IF conn[c].session = Null THEN "no session"
  ELSE IF conn[c].user = Null THEN "no user"
  ELSE LET S == sess[conn[c].session]
           i == IndexOfId(S.users, conn[c].user)
       IN IF S.users[i].master THEN "master can't vote"
          ELSE IF S.status # "voting" THEN "you can't vote now"
          ELSE IF text \notin Range(GetUserWhitecards(S, i)) THEN "you have no such card"
          ELSE IF S.users[i].voted THEN "you have voted already"
          ELSE "ok"

Vote(c, text) ==
  /\ Tick(c)
  /\ ~closed[c]
  /\ LET err == VoteError(c, text)
         cmd == [NoCmd EXCEPT !.cmd = "vote", !.socket = c, !.text = text,
                              !.sid = conn[c].session, !.userId = conn[c].user]
     IN IF err # "ok"
        THEN /\ last' = [cmd EXCEPT !.result = err]
             /\ UNCHANGED sess
        ELSE LET sid == conn[c].session
                 S == sess[sid]
                 i == IndexOfId(S.users, conn[c].user)
             IN IF ~SessionVoteAllowed(S, i, text)
                THEN /\ last' = [cmd EXCEPT !.invoked = TRUE, !.result = "session rejected"]
                     /\ UNCHANGED sess
                ELSE LET S1 == RecordVote(S, i, text)
                         adv == AllVoted(S1)
                         S2 == IF adv THEN [S1 EXCEPT !.status = "choosing"] ELSE S1
                     IN /\ sess' = [sess EXCEPT ![sid] = S2]
                        /\ last' = [cmd EXCEPT
                                      !.invoked = TRUE,
                                      !.emitted = IF adv THEN <<"choosing">> ELSE <<>>,
                                      !.sent = IF adv THEN Emit(S2, "choosing") ELSE <<>>]
  /\ UNCHANGED <<sessions, conn, closed, ended>>

\* StartGameError without the status check
StartGameError_NoStatusCheck(c) ==
  IF conn[c].session = Null THEN "no session"
  ELSE IF conn[c].user = Null THEN "no user"
  ELSE LET S == sess[conn[c].session]
           i == IndexOfId(S.users, conn[c].user)
       IN IF ~S.users[i].host THEN "you are not a host"
          ELSE "ok"

\* StartGameError without the host check
StartGameError_NoHostCheck(c) ==
  IF conn[c].session = Null THEN "no session"
  ELSE IF conn[c].user = Null THEN "no user"
  ELSE LET S == sess[conn[c].session]
       IN IF S.status # "waiting" /\ S.status # "end" THEN "game is started already"
          ELSE "ok"

\* StartGameError asking for at least two players
StartGameError_TwoPlayers(c) ==
  IF conn[c].session = Null THEN "no session"
  ELSE IF conn[c].user = Null THEN "no user"
  ELSE LET S == sess[conn[c].session]
           i == IndexOfId(S.users, conn[c].user)
       IN IF ~S.users[i].host THEN "you are not a host"
          ELSE IF S.status # "waiting" /\ S.status # "end" THEN "game is started already"
          ELSE IF Len(S.users) < 2 THEN "need more players"
          ELSE "ok"

\* Game.startGame's checks, in the order the code makes them
StartGameError(c) ==
  IF conn[c].session = Null THEN "no session"
  ELSE IF conn[c].user = Null THEN "no user"
  ELSE LET S == sess[conn[c].session]
           i == IndexOfId(S.users, conn[c].user)
       IN IF ~S.users[i].host THEN "you are not a host"
          ELSE IF S.status # "waiting" /\ S.status # "end" THEN "game is started already"
          ELSE IF Len(S.users) < 0 THEN "need more players"
          ELSE "ok"

StartGame(c) ==
  /\ Tick(c)
  /\ ~closed[c]
  /\ LET err == StartGameError(c)
         cmd == [NoCmd EXCEPT !.cmd = "startgame", !.socket = c,
                              !.sid = conn[c].session, !.userId = conn[c].user]
     IN IF err # "ok"
        THEN /\ last' = [cmd EXCEPT !.result = err]
             /\ UNCHANGED sess
        ELSE LET sid == conn[c].session
                 S0 == InstallListeners(sess[sid])
             IN \E m \in 1..Len(S0.users), r \in RedCards :
                  LET S1 == [S0 EXCEPT !.status = "starting", !.starts = @ + 1]
                      S2 == [DealRound(S1, m, r) EXCEPT !.status = "voting"]
                  IN /\ sess' = [sess EXCEPT ![sid] = S2]
                     /\ last' = [cmd EXCEPT
                                   !.invoked = TRUE,
                                   !.emitted = <<"starting", "voting">>,
                                   !.sent = Emit(S1, "starting") \o Emit(S2, "voting"),
                                   !.result = IF NoRedCard(S2) THEN "no red card" ELSE "ok"]
  /\ UNCHANGED <<sessions, conn, closed, ended>>

\* ChooseError without the master check
ChooseError_NoMasterCheck(c) ==
  IF conn[c].session = Null THEN "no session"
  ELSE IF sess[conn[c].session].status # "choosing" THEN "you can't choose"
  ELSE IF conn[c].user = Null THEN "no user"
  ELSE "ok"

\* Game.choose's checks, in the order the code makes them
ChooseError(c) ==
  IF conn[c].session = Null THEN "no session"
  ELSE IF sess[conn[c].session].status # "choosing" THEN "you can't choose"
  ELSE IF conn[c].user = Null THEN "no user"
  ELSE LET S == sess[conn[c].session]
           i == IndexOfId(S.users, conn[c].user)
       IN IF ~S.users[i].master THEN "only master can choose card to show"
          ELSE "ok"

Choose(c, userId) ==
  /\ Tick(c)
  /\ ~closed[c]
  /\ LET err == ChooseError(c)
         cmd == [NoCmd EXCEPT !.cmd = "choose", !.socket = c, !.text = userId,
                              !.sid = conn[c].session, !.userId = conn[c].user]
     IN IF err # "ok"
        THEN /\ last' = [cmd EXCEPT !.result = err]
             /\ UNCHANGED sess
        ELSE LET sid == conn[c].session
                 S == sess[sid]
             IN IF ~SessionChooseAllowed(S)
                THEN /\ last' = [cmd EXCEPT !.invoked = TRUE, !.result = "session rejected"]
                     /\ UNCHANGED sess
                ELSE LET S1 == [S EXCEPT !.status = "choosingbest"]
                     IN /\ sess' = [sess EXCEPT ![sid] = S1]
                        /\ last' = [cmd EXCEPT !.invoked = TRUE,
                                      !.emitted = <<"choosingbest">>,
                                      !.sent = Emit(S1, "choosingbest")]
  /\ UNCHANGED <<sessions, conn, closed, ended>>

\* Game.chooseBest's checks, in the order the code makes them
ChooseBestError(c) ==
  IF conn[c].session = Null THEN "no session"
  ELSE IF sess[conn[c].session].status # "choosingbest" THEN "you can't choose"
  ELSE IF conn[c].user = Null THEN "no user"
  ELSE LET S == sess[conn[c].session]
           i == IndexOfId(S.users, conn[c].user)
       IN IF ~S.users[i].master THEN "only master can choose card to show"
          ELSE "ok"

\* Session.chooseBest closes the round: the game ends, or the next round
\* opens with the next master
ChooseBest(c, userId) ==
  /\ Tick(c)
  /\ ~closed[c]
  /\ LET err == ChooseBestError(c)
         cmd == [NoCmd EXCEPT !.cmd = "choosebest", !.socket = c, !.text = userId,
                              !.sid = conn[c].session, !.userId = conn[c].user]
     IN IF err # "ok"
        THEN /\ last' = [cmd EXCEPT !.result = err]
             /\ UNCHANGED sess
        ELSE LET sid == conn[c].session
                 S == sess[sid]
             IN IF ~SessionChooseBestAllowed(S)
                THEN /\ last' = [cmd EXCEPT !.invoked = TRUE, !.result = "session rejected"]
                     /\ UNCHANGED sess
                ELSE \/ /\ sess' = [sess EXCEPT ![sid] = [S EXCEPT !.status = "end"]]
                        /\ last' = [cmd EXCEPT !.invoked = TRUE]
                     \/ \E r \in RedCards :
                          LET S1 == [DealRound(S, NextMaster(S), r)
                                       EXCEPT !.status = "voting"]
                          IN /\ sess' = [sess EXCEPT ![sid] = S1]
                             /\ last' = [cmd EXCEPT !.invoked = TRUE,
                                           !.emitted = <<"voting">>,
                                           !.sent = Emit(S1, "voting")]
  /\ UNCHANGED <<sessions, conn, closed, ended>>

\* user ids a client may name in choose / choosebest
ChooseIds == {1, 2}

Next ==
  \/ \E c \in Conns : CreateSession(c, FreshName(NewSession(Null)))
  \/ \E c \in Conns, sid \in 1..MaxSessions, name \in Names : JoinSession(c, sid, name)
  \/ \E c \in Conns, text \in Deck : Vote(c, text)
  \/ \E c \in Conns : StartGame(c)
  \/ \E c \in Conns, userId \in ChooseIds : Choose(c, userId)
  \/ \E c \in Conns, userId \in ChooseIds : ChooseBest(c, userId)
  \/ \E c \in Conns : LostConnection(c)
  \/ \E c \in Conns : Close(c)

Spec == Init /\ [][Next]_vars

\* ------------------------------------------------------- failure taxonomy
\* the named failure (section 7) each message thrown by Game stands for
FailureOf(msg) ==
  CASE msg = "session not found" -> "SessionNotFound"
    [] msg \in {"no session", "no user"} -> "MissingContext"
    [] msg \in {"you are not a host", "master can't vote",
                "only master can choose card to show"} -> "PermissionDenied"
    [] msg \in {"game is started already", "you can't vote now",
                "you can't choose"} -> "InvalidPhase"
    [] msg = "nickname is taken" -> "DuplicateNickname"
    [] msg = "you have no such card" -> "UnknownCard"
    [] msg = "you have voted already" -> "AlreadyVoted"
    [] msg = "ok" -> "None"
    [] OTHER -> "Unexpected"

\* the command of the step just taken resolved to a session and a user
HadContext == conn[last'.socket].session # Null /\ conn[last'.socket].user # Null

\* --------------------------------------------------------------- claims

\* C1: no command attempts a send to a user that has no bound connection
\* (a disconnected user): every broadcast, the joined/userjoined one of
\* joinsession included, skips such users.
C1_NoSendToDisconnected == last.nosocket = Null

\* C2: once every connection has been closed (and its close notification
\* handled), the registry holds no session.
C2_AllClosedNoSession == (\A c \in Conns : closed[c]) => sessions = {}

\* C3: once onSessionEnd has run for a session, the session stays out of the
\* registry, its bus has no listeners, no payload is sent on its behalf and
\* no command changes it.
C3_DeadSessionUntouched ==
  [][\A s \in ended :
       /\ s \notin sessions'
       /\ sess'[s].listeners = NoListeners
       /\ sess'[s] = sess[s]
       /\ (last'.sid = s => last'.sent = <<>>)]_vars

\* C4: joinsession under the username of an existing user, in a session whose
\* status is neither waiting nor end, adds no user: the users keep their
\* number, order, ids, hands and voted flags; the joining connection is bound
\* to the existing user, whose disconnected flag is cleared.
C4_ReconnectKeepsIdentity ==
  [][(/\ last'.cmd = "joinsession"
      /\ last'.sid \in sessions
      /\ sess[last'.sid].status \notin {"waiting", "end"}
      /\ \E i \in 1..Len(sess[last'.sid].users) :
           sess[last'.sid].users[i].username = last'.name)
     => LET old == sess[last'.sid].users
            new == sess'[last'.sid].users
            i == CHOOSE k \in 1..Len(old) : old[k].username = last'.name
        IN /\ Len(new) = Len(old)
           /\ \A k \in 1..Len(old) :
                /\ new[k].id = old[k].id
                /\ new[k].username = old[k].username
                /\ new[k].whiteCards = old[k].whiteCards
                /\ new[k].voted = old[k].voted
           /\ conn'[last'.socket] = [session |-> last'.sid, user |-> old[i].id]
           /\ new[i].socket = last'.socket
           /\ ~new[i].disconnected]_vars

\* a user who had voted and was disconnected has just been reconnected
C4_Witness ==
  /\ last.cmd = "joinsession"
  /\ last.invoked
  /\ last.sid \in sessions
  /\ sess[last.sid].status \notin {"waiting", "end"}
  /\ \E i \in 1..Len(sess[last.sid].users) :
       /\ sess[last.sid].users[i].id = conn[last.socket].user
       /\ sess[last.sid].users[i].voted
       /\ Len(sess[last.sid].users[i].whiteCards) > 0

\* C5: in a session whose status is waiting or end, joinsession under a
\* username some user of the session has fails with DuplicateNickname and adds
\* no user; under any other username it succeeds and appends exactly one user,
\* with host = FALSE.
C5_JoinWhileOpen ==
  [][(/\ last'.cmd = "joinsession"
      /\ last'.sid \in sessions
      /\ sess[last'.sid].status \in {"waiting", "end"})
     => LET old == sess[last'.sid].users
            new == sess'[last'.sid].users
        IN IF \E i \in 1..Len(old) : old[i].username = last'.name
           THEN /\ FailureOf(last'.result) = "DuplicateNickname"
                /\ new = old
           ELSE /\ last'.result = "ok"
                /\ Len(new) = Len(old) + 1
                /\ SubSeq(new, 1, Len(old)) = old
                /\ new[Len(new)].username = last'.name
                /\ ~new[Len(new)].host]_vars

\* C6: a session's status changes only along the edges of the state machine:
\* startgame from waiting or end (through starting, to voting), vote in voting
\* (to choosing), choose from choosing (to choosingbest), choosebest from
\* choosingbest (to a fresh round or to end); a new session starts in waiting;
\* every other command, and every rejected command, leaves every status as it
\* was.
C6_StatusEdges ==
  [][/\ \A s \in DOMAIN sess' :
          IF s \notin DOMAIN sess THEN sess'[s].status = "waiting"
          ELSE sess'[s].status # sess[s].status =>
            /\ last'.sid = s
            /\ last'.result = "ok"
            /\ \/ /\ last'.cmd = "startgame"
                  /\ sess[s].status \in {"waiting", "end"}
                  /\ last'.emitted = <<"starting", "voting">>
                  /\ sess'[s].status = "voting"
               \/ /\ last'.cmd = "vote"
                  /\ sess[s].status = "voting"
                  /\ sess'[s].status = "choosing"
               \/ /\ last'.cmd = "choose"
                  /\ sess[s].status = "choosing"
                  /\ sess'[s].status = "choosingbest"
               \/ /\ last'.cmd = "choosebest"
                  /\ sess[s].status = "choosingbest"
                  /\ sess'[s].status \in {"voting", "end"}
     /\ (last'.cmd = "startgame" /\ last'.invoked)
          => sess[last'.sid].status \in {"waiting", "end"}
     /\ (last'.cmd = "vote" /\ last'.invoked) => sess[last'.sid].status = "voting"
     /\ (last'.cmd = "choose" /\ last'.invoked) => sess[last'.sid].status = "choosing"
     /\ (last'.cmd = "choosebest" /\ last'.invoked)
          => sess[last'.sid].status = "choosingbest"]_vars

\* a whole round has been played and the game has ended
C6_Witness ==
  /\ last.cmd = "choosebest"
  /\ last.result = "ok"
  /\ sess[last.sid].status = "end"

\* the session and the user the command of the step just taken resolved to
PreSession == sess[conn[last'.socket].session]

PreUser ==
  LET S == PreSession IN S.users[IndexOfId(S.users, conn[last'.socket].user)]

\* C7 as stated: startgame by a caller that is not the host is rejected with
\* PermissionDenied, and startgame in a status other than waiting or end with
\* InvalidPhase; both leave the session untouched; otherwise the start succeeds.
C7_StartGameGuards ==
  [][(last'.cmd = "startgame" /\ HadContext)
     => LET open == PreSession.status \in {"waiting", "end"}
        IN /\ ~PreUser.host => FailureOf(last'.result) = "PermissionDenied"
           /\ ~open => FailureOf(last'.result) = "InvalidPhase"
           /\ (~PreUser.host \/ ~open) => (~last'.invoked /\ sess' = sess)
           /\ (PreUser.host /\ open)
                => /\ last'.result = "ok"
                   /\ last'.invoked
                   /\ sess'[last'.sid].status = "voting"]_vars

\* C7 amended: the host check comes first, so InvalidPhase is the failure of a
\* host's startgame in a status other than waiting or end; a caller that is not
\* the host gets PermissionDenied in every status.
C7_StartGameGuardsInOrder ==
  [][(last'.cmd = "startgame" /\ HadContext)
     => LET open == PreSession.status \in {"waiting", "end"}
        IN /\ ~PreUser.host => FailureOf(last'.result) = "PermissionDenied"
           /\ (PreUser.host /\ ~open) => FailureOf(last'.result) = "InvalidPhase"
           /\ (~PreUser.host \/ ~open) => (~last'.invoked /\ sess' = sess)
           /\ (PreUser.host /\ open)
                => /\ last'.result = "ok"
                   /\ last'.invoked
                   /\ sess'[last'.sid].status = "voting"]_vars

\* startgame by a user that is not the host, in a game already started
C7_Witness ==
  /\ last.cmd = "startgame"
  /\ last.result = "you are not a host"
  /\ sess[last.sid].status \notin {"waiting", "end"}

\* C8: a successful startgame emits starting and then voting within the one
\* command: every connected user is sent exactly one gamestart and then exactly
\* one votingstarted, nothing else is sent, no gamestart follows a
\* votingstarted, and the status is voting afterwards.
C8_StartEmitsBoth ==
  (last.cmd = "startgame" /\ last.invoked)
  => LET S == sess[last.sid]
     IN /\ last.result = "ok"
        /\ last.emitted = <<"starting", "voting">>
        /\ S.status = "voting"
        /\ \A k \in 1..Len(last.sent) :
             /\ last.sent[k].type \in {"gamestart", "votingstarted"}
             /\ \A j \in 1..(k - 1) :
                  ~(last.sent[j].type = "votingstarted" /\ last.sent[k].type = "gamestart")
        /\ \A i \in 1..Len(S.users) :
             LET mine == SelectSeq(last.sent, LAMBDA m : m.user = S.users[i].id)
             IN IF S.users[i].disconnected THEN mine = <<>>
                ELSE /\ Len(mine) = 2
                     /\ mine[1].type = "gamestart" /\ mine[1].status = "starting"
                     /\ mine[2].type = "votingstarted" /\ mine[2].status = "voting"
                     /\ mine[1].to = S.users[i].socket
                     /\ mine[2].to = S.users[i].socket

\* a game has been started in a session with connected and disconnected users
C8_Witness ==
  /\ last.cmd = "startgame"
  /\ last.invoked
  /\ \E i, j \in 1..Len(sess[last.sid].users) :
       /\ i # j
       /\ ~sess[last.sid].users[i].disconnected
       /\ ~sess[last.sid].users[j].disconnected
  /\ \E i \in 1..Len(sess[last.sid].users) : sess[last.sid].users[i].disconnected

\* C9 as stated: a vote is accepted exactly when the status is voting, the
\* caller is not the master, the card is in the caller's hand and the caller
\* has not voted; otherwise nothing is recorded, and a card not in the hand
\* gives UnknownCard, a second vote AlreadyVoted, a vote by the master
\* PermissionDenied, a vote outside voting InvalidPhase.
C9_VoteGuards ==
  [][(last'.cmd = "vote" /\ HadContext)
     => LET inHand == last'.text \in Range(PreUser.whiteCards)
            voting == PreSession.status = "voting"
        IN /\ last'.invoked <=> (voting /\ ~PreUser.master /\ inHand /\ ~PreUser.voted)
           /\ ~last'.invoked => (last'.result # "ok" /\ sess' = sess)
           /\ ~inHand => FailureOf(last'.result) = "UnknownCard"
           /\ PreUser.voted => FailureOf(last'.result) = "AlreadyVoted"
           /\ PreUser.master => FailureOf(last'.result) = "PermissionDenied"
           /\ ~voting => FailureOf(last'.result) = "InvalidPhase"]_vars

\* C9 amended: the acceptance condition is as stated; a rejected vote fails
\* with the first check that fails, in the order master (PermissionDenied),
\* status (InvalidPhase), card (UnknownCard), voted (AlreadyVoted).
C9_VoteGuardsInOrder ==
  [][(last'.cmd = "vote" /\ HadContext)
     => LET inHand == last'.text \in Range(PreUser.whiteCards)
            voting == PreSession.status = "voting"
        IN /\ last'.invoked <=> (voting /\ ~PreUser.master /\ inHand /\ ~PreUser.voted)
           /\ last'.invoked => last'.result = "ok"
           /\ ~last'.invoked => (last'.result # "ok" /\ sess' = sess)
           /\ PreUser.master => FailureOf(last'.result) = "PermissionDenied"
           /\ (~PreUser.master /\ ~voting) => FailureOf(last'.result) = "InvalidPhase"
           /\ (~PreUser.master /\ voting /\ ~inHand)
                => FailureOf(last'.result) = "UnknownCard"
           /\ (~PreUser.master /\ voting /\ inHand /\ PreUser.voted)
                => FailureOf(last'.result) = "AlreadyVoted"]_vars

\* a second vote in the round, with a card still in the hand, was rejected
C9_Witness ==
  /\ last.cmd = "vote"
  /\ last.result = "you have voted already"

\* C10: choose is accepted exactly when the caller is the master and the
\* status is choosing, choosebest exactly when the caller is the master and the
\* status is choosingbest; a call in another status fails with InvalidPhase and
\* Session.choose / Session.chooseBest is not invoked.
C10_ChooseGuards ==
  [][(last'.cmd \in {"choose", "choosebest"} /\ HadContext)
     => LET want == IF last'.cmd = "choose" THEN "choosing" ELSE "choosingbest"
        IN /\ last'.invoked <=> (PreUser.master /\ PreSession.status = want)
           /\ ~PreUser.master => (~last'.invoked /\ last'.result # "ok")
           /\ PreSession.status # want
                => /\ FailureOf(last'.result) = "InvalidPhase"
                   /\ ~last'.invoked
                   /\ sess' = sess]_vars

\* the master's choose has been accepted in status choosing
C10_Witness ==
  /\ last.cmd = "choose"
  /\ last.invoked
  /\ last.result = "ok"
  /\ sess[last.sid].status = "choosingbest"

\* the step just taken handled a lost connection (the lostconnection handler
\* or a close listener) of a connection that had a session and a user
LostWithContext == last'.cmd \in {"lostconnection", "close"} /\ HadContext

\* C11: when a lost connection leaves every user of the connection's session
\* disconnected, the end-of-session callback runs in that step and the session
\* is not in the registry afterwards; when some user of the session is still
\* connected after the step, the callback does not run and the registry is as
\* it was.
C11_LastDisconnectEndsSession ==
  [][LostWithContext =>
       LET sid == conn[last'.socket].session
       IN IF SessionEmpty(sess'[sid])
          THEN /\ last'.callback
               /\ sid \notin sessions'
               /\ sessions' = sessions \ {sid}
          ELSE /\ ~last'.callback
               /\ sessions' = sessions]_vars

\* a lost connection ended a session of two users, the other one having been
\* disconnected earlier while the session stayed registered
C11_Witness ==
  /\ last.cmd = "lostconnection"
  /\ last.callback
  /\ last.sid \in ended
  /\ last.sid \notin sessions
  /\ Len(sess[last.sid].users) = 2

\* the commands that need the connection's session and user
ContextCommands == {"vote", "startgame", "choose", "choosebest"}

\* C12: a lost connection of a connection with a session and a user leaves the
\* connection with neither; in every state a connection has a session
\* association exactly when it has a user association; a vote, startgame,
\* choose or choosebest on a connection without association is rejected with
\* MissingContext and changes nothing; a lostconnection or close on such a
\* connection changes nothing;
\* and only a createsession or joinsession of the connection itself gives a
\* connection an association again.
C12_LostClearsContext ==
  [][/\ LostWithContext =>
          conn'[last'.socket] = [session |-> Null, user |-> Null]
     /\ \A c \in Conns : (conn'[c].session = Null) <=> (conn'[c].user = Null)
     /\ (last'.cmd \in ContextCommands /\ conn[last'.socket].session = Null) =>
          /\ FailureOf(last'.result) = "MissingContext"
          /\ UNCHANGED <<sessions, sess, conn, ended>>
          /\ last'.sent = <<>>
     /\ (last'.cmd \in {"lostconnection", "close"} /\ ~HadContext) =>
          UNCHANGED <<sessions, sess, conn, ended>>
     /\ \A c \in Conns : (conn[c].session = Null /\ conn'[c].session # Null) =>
          (last'.cmd \in {"createsession", "joinsession"} /\ last'.socket = c)]_vars

\* connection 1 created the only session, lost its connection, and its vote
\* is now rejected for the missing session
C12_Witness ==
  /\ Len(sess) = 1
  /\ sess[1].status = "waiting"
  /\ Len(sess[1].users) = 1
  /\ sess[1].users[1].disconnected
  /\ last.cmd = "vote"
  /\ last.socket = 1
  /\ last.result = "no session"
  /\ conn[1] = [session |-> Null, user |-> Null]

\* the payloads of sends that go to user uid and have type t
PayloadsFor(sends, uid, t) ==
  SelectSeq(sends, LAMBDA m : m.user = uid /\ m.type = t)

\* C13: every session's bus holds at most one handler per phase event, and a
\* command delivers at most one payload of each phase to each user.
C13_OneHandlerPerPhase ==
  /\ \A s \in DOMAIN sess : \A e \in Events : sess[s].listeners[e] <= 1
  /\ \A s \in DOMAIN sess : \A i \in 1..Len(sess[s].users) : \A e \in Events :
       Len(PayloadsFor(last.sent, sess[s].users[i].id, PhaseType(e))) <= 1

\* startgame has just succeeded for the second time on a session
C13_Witness ==
  /\ last.cmd = "startgame"
  /\ last.invoked
  /\ sess[last.sid].starts = 2
  /\ \A e \in Events : sess[last.sid].listeners[e] = 1
  /\ Len(last.sent) >= 2

\* the hosts of a session
Hosts(S) == {i \in 1..Len(S.users) : S.users[i].host}

\* C14: createsession adds a session under an identifier that no registered
\* session had, in status waiting, with one user, who is the host; the creating
\* connection is associated with that session and user, and the only payload
\* is "created" to that connection.  joinsession adds no host: in every state
\* each session has exactly one host, its first user.
C14_CreateMakesOneHost ==
  [][/\ last'.cmd = "createsession" =>
          LET sid == last'.sid
          IN /\ sid \notin sessions
             /\ sid \notin DOMAIN sess
             /\ sessions' = sessions \cup {sid}
             /\ sess'[sid].status = "waiting"
             /\ Len(sess'[sid].users) = 1
             /\ sess'[sid].users[1].host
             /\ sess'[sid].users[1].socket = last'.socket
             /\ conn'[last'.socket] =
                  [session |-> sid, user |-> sess'[sid].users[1].id]
             /\ Len(last'.sent) = 1
             /\ last'.sent[1].to = last'.socket
             /\ last'.sent[1].type = "created"
     /\ \A s \in DOMAIN sess' : Hosts(sess'[s]) = {1}]_vars

\* a joinsession has added a third user to a session
C14_Witness ==
  /\ last.cmd = "joinsession"
  /\ last.result = "ok"
  /\ Len(sess[last.sid].users) = 3
  /\ ~sess[last.sid].users[3].host

\* C15: joinsession with an identifier that is not in the registry fails with
\* SessionNotFound, changes neither the registry nor any session nor any
\* association, and sends nothing.
C15_JoinUnknownSession ==
  [][(last'.cmd = "joinsession" /\ last'.sid \notin sessions) =>
       /\ FailureOf(last'.result) = "SessionNotFound"
       /\ UNCHANGED <<sessions, sess, conn, ended>>
       /\ last'.sent = <<>>]_vars

\* a joinsession named a session that had been torn down
C15_Witness ==
  /\ last.cmd = "joinsession"
  /\ last.result = "session not found"
  /\ last.sid \in ended

\* the votes of S are by distinct users, none of them a master
VotesWellFormed(S) ==
  /\ \A j, k \in DOMAIN S.votes :
       S.votes[j].userId = S.votes[k].userId => j = k
  /\ \A j \in DOMAIN S.votes : \A i \in 1..Len(S.users) :
       S.users[i].id = S.votes[j].userId => ~S.users[i].master

\* C16: in every state the votes of a session hold at most one card per user
\* and none by a master; and the votes of a session grow only by a vote
\* command, by one entry, for the voting connection's user, with a card that
\* was in that user's hand before the command.
C16_VotesOnePerUserFromHand ==
  [][/\ \A s \in DOMAIN sess' : VotesWellFormed(sess'[s])
     /\ \A s \in DOMAIN sess :
          Len(sess'[s].votes) > Len(sess[s].votes) =>
            /\ last'.cmd = "vote"
            /\ HadContext
            /\ conn[last'.socket].session = s
            /\ ~PreUser.master
            /\ ~PreUser.voted
            /\ last'.text \in Range(PreUser.whiteCards)
            /\ sess'[s].votes =
                 Append(sess[s].votes, [userId |-> PreUser.id, text |-> last'.text])]_vars

\* a second user's vote has just been recorded in a session of three users
C16_Witness ==
  /\ last.cmd = "vote"
  /\ last.result = "ok"
  /\ Len(sess[last.sid].users) = 3
  /\ Len(sess[last.sid].votes) = 2

\* the payload types that carry a hand
HandTypes == {"joined", "votingstarted", "choosingstarted"}

\* C17: every payload that carries whiteCards is sent to a connection whose
\* associated user has exactly that hand.
C17_HandsToBoundUser ==
  \A k \in DOMAIN last.sent :
    LET m == last.sent[k]
    IN m.type \in HandTypes =>
         /\ conn[m.to].session # Null
         /\ conn[m.to].user # Null
         /\ LET S == sess[conn[m.to].session]
            IN m.whiteCards =
                 GetUserWhitecards(S, IndexOfId(S.users, conn[m.to].user))

\* C18: for every connection c and every user u of a registered session, c is
\* associated with u exactly when u's bound connection is c.
C18_AssociationBothWays ==
  \A c \in Conns : \A s \in sessions : \A i \in 1..Len(sess[s].users) :
    (conn[c].session = s /\ conn[c].user = sess[s].users[i].id)
      <=> (GetUserSocket(sess[s], i) = c)

\* C19: a command that is rejected leaves the registry, every session and
\* every association as they were, and sends no payload to a connection other
\* than the originating one.
C19_RejectionChangesNothing ==
  [][last'.result # "ok" =>
       /\ UNCHANGED <<sessions, sess, conn, ended>>
       /\ \A k \in DOMAIN last'.sent : last'.sent[k].to = last'.socket]_vars

\* C20: a startgame by the host of a session in status waiting or end
\* succeeds whatever the number of users, and no command fails with
\* "need more players".
C20_NoPlayerMinimum ==
  [][/\ last'.result # "need more players"
     /\ (last'.cmd = "startgame" /\ HadContext) =>
          \A n \in 1..MaxUsers :
            (/\ Len(PreSession.users) = n
             /\ PreUser.host
             /\ PreSession.status \in {"waiting", "end"}) =>
              /\ last'.result = "ok"
              /\ last'.invoked
              /\ sess'[last'.sid].status = "voting"
              /\ Len(sess'[last'.sid].users) = n]_vars

\* the host has started a session whose only user is the host
C20_Witness ==
  /\ last.cmd = "startgame"
  /\ last.result = "ok"
  /\ Len(sess[last.sid].users) = 1
  /\ sess[last.sid].users[1].host
  /\ sess[last.sid].status = "voting"

====
